---- MODULE Spec2Model ----
(***************************************************************************)
(* Model of ev-charging-gaps (src/src/lib.rs): the reachability classifier *)
(* (check_charger / nearest_chargers), the routing-oracle client           *)
(* (get_osrm_distance), the grid and chunk generators of BoundingBox, and  *)
(* the driver loop find_gaps.                                              *)
(*                                                                         *)
(* Numbers.  Coordinates are integers.  In the find_gaps worlds the unit   *)
(* of a coordinate is one metre of great-circle arc (180/(PI*R) degrees),  *)
(* and every world lies either on one meridian (all longitudes equal) or   *)
(* on the equator (all latitudes 0).  On those two great circles the       *)
(* haversine distance of distance_to is exactly the coordinate difference, *)
(* and cos(lat) in add_meters_to_coords is needed only at lat = 0.         *)
(* Driving distances answered by the oracle are f64 metres; they are kept  *)
(* in tenths of a metre so that the cast `distance as u64` truncates.      *)
(***************************************************************************)
EXTENDS Integers, Sequences, FiniteSets, TLC

\* ---------------------------------------------------------------- constants
MAX_RANGE_METERS == 400000
\* CROW_FLIES_RATIO = 0.1, kept as the denominator of the fraction 1/10
CROW_FLIES_RATIO_DENOM == 10
\* the 25_000.0 of PADDED_MAX_RANGE_METERS
PADDING_METERS == 25000
\* `if tried_chargers == 50 { break; }`
TRIED_CHARGERS_CAP == 50
\* `if retries > 60 { 60 } else { retries }`
MAX_SLEEP_SECS == 60
\* `if i % 1_000 == 0`
PROGRESS_EVERY == 1000
\* PI * EARTH_RADIUS_METERS, rounded: longitude 180 degrees in metres of arc
HALF_TURN_METERS == 20015087

\* ------------------------------------------------------------------- bounds
\* chargers in a sparse world
MaxChargers == 2
\* grid points along the axis of a find_gaps world
MaxGridPts == 2
\* chargers of the dense world (more than TRIED_CHARGERS_CAP)
DenseChargers == 52
\* transport failures in a row the network produces in a find_gaps world
MaxRetries == 2
\* transport failures in a row of a long outage (more than MAX_SLEEP_SECS)
LongOutage == 61
\* grid step of a find_gaps world, in metres of arc
GridStep == 450000
\* largest corner coordinate and largest resolution of a box handed to generate_grid
MaxCoord == 4
MaxResolution == 3
\* widths of the boxes handed to chunkify, in units of WidthUnit
MaxWidthUnits == 2
\* records of a csv source, and distinct station ids in it
MaxRows == 2
MaxIds == 2
\* least common multiple of chunks/2 over the chunk counts 4, 6, 8, 10, 12
WidthUnit == 3 * 4 * 5

Abs(x) == IF x < 0 THEN -x ELSE x

Min(a, b) == IF a < b THEN a ELSE b

\* positions (metres of arc along the axis) where a sparse world may have a
\* charger; grid points are at 0, GridStep, ...
ChargerSites == {5000, 39999, 40000, 45000, 399999, 410000, 875000, 875001}

\* distances (tenths of a metre) the oracle may answer in routes[0].distance
OracleDistances == {-10, 3000000, 4000000, 4000005, 4000010, 6000000}

VARIABLES
    chargers,              \* AllChargerLocations: sequence of ChargerLocation, in quadtree order
    bbox,                  \* the BoundingBox handed to find_gaps / generate_grid / chunkify
    resolution,            \* grid resolution
    n_chunks,              \* the `chunks` argument of chunkify
    outage,                \* longest run of transport failures the oracle's network produces
    chunks_vec,            \* result of chunkify
    grid,                  \* result of generate_grid
    pc,                    \* position in find_gaps
    i,                     \* number of grid points fully processed (loop index)
    reachable, unreachable, maybe_reachable, api_call_counter,
    not_reachable_points,  \* Vec of the points found unreachable
    result,                \* CheckResult tag of the point being processed
    candidates,            \* payload of CheckResult::Maybe
    next_candidate,        \* position of the `for (charger, _) in candidates` iterator
    is_reachable, tried_chargers,
    retries,               \* local of get_osrm_distance
    slept,                 \* seconds of the last thread::sleep of the running call
    sent,                  \* requests sent by the running get_osrm_distance call
    response,              \* the last exchange with the oracle of the running/last call
    osrm_return,           \* what the last finished get_osrm_distance call returned
    queried,               \* candidates of the current point handed to get_osrm_distance
    processed,             \* per processed point: its verdict and outcome
    multipoint,            \* the MultiPoint handed to concave_hull
    csv_rows,              \* the records of the csv::Reader handed to read_csv
    read_result,           \* what read_csv returned
    trial_point,           \* the TrialPoint of a nearest_chargers call on its own
    test_chargers,         \* result of that nearest_chargers call
    slow_check             \* the linear scan of the same chargers (tests.rs:32-40)

\* the inputs of a run: no operation assigns them
world == <<chargers, bbox, resolution, n_chunks, outage>>

\* the state of read_csv and of a nearest_chargers call on its own, which
\* find_gaps, generate_grid and chunkify do not touch
apart == <<csv_rows, read_result, trial_point, test_chargers, slow_check>>

vars == <<chargers, bbox, resolution, n_chunks, outage, chunks_vec, grid, pc, i,
          reachable, unreachable, maybe_reachable, api_call_counter,
          not_reachable_points, result, candidates, next_candidate,
          is_reachable, tried_chargers, retries, slept, sent, response, osrm_return,
          queried, processed, multipoint,
          csv_rows, read_result, trial_point, test_chargers, slow_check>>

\* ------------------------------------------------------------ pure functions

\* BoundingBox::width / BoundingBox::height
width(b) == Abs(b.lat_start - b.lat_end)

height(b) == Abs(b.lon_start - b.lon_end)

\* BoundingBox::generate_grid: row-major, latitude outer, longitude inner
generate_grid(b, res) ==
    LET number_lat_pts == width(b) \div res
        number_lon_pts == height(b) \div res
    IN  [k \in 1..(number_lat_pts * number_lon_pts) |->
            LET lat == (k - 1) \div number_lon_pts
                lon == (k - 1) % number_lon_pts
            IN  [latitude  |-> b.lat_start + lat * res,
                 longitude |-> b.lon_start + lon * res]]

\* BoundingBox::chunkify; `chunks / 2` is the integer division of usize
chunkify(b, chunks) ==
    LET width_interval == width(b) \div (chunks \div 2)
    IN  [k \in 1..chunks |->
            LET current_width_interval == (k - 1) * width_interval
            IN  [lat_start |-> b.lat_start - current_width_interval,
                 lat_end   |-> b.lat_start - (current_width_interval + width_interval),
                 lon_start |-> b.lon_start,
                 lon_end   |-> b.lon_end]]

\* TrialPoint::distance_to followed by `as u64`: on a common meridian the
\* haversine arc is R*|dlat|; on the equator it is R*|dlon| taken the short
\* way round (sin^2(dlon/2) is the same for dlon and 360 degrees - dlon)
distance_to(p, c) ==
    IF p.longitude = c.longitude
    THEN Abs(p.latitude - c.latitude)
    ELSE Min(Abs(p.longitude - c.longitude),
             2 * HALF_TURN_METERS - Abs(p.longitude - c.longitude))

\* add_meters_to_coords; the longitude offset is meters / cos(lat), which is
\* `meters` at lat = 0 (elsewhere the worlds keep every charger on the point's
\* own meridian, inside the rectangle's longitude span whatever the offset)
add_meters_to_coords(meters, lat, lon) == <<lat + meters, lon + meters>>

PADDED_MAX_RANGE_METERS == MAX_RANGE_METERS + PADDING_METERS

\* `x as f32`: an f32 holds 24 significant bits, so an integer below 2^24 in
\* size is kept and one in [2^24, 2^25) is rounded to the nearest even
\* integer, a tie going to the even mantissa (coordinates stay below 2^25)
AsF32(x) ==
    LET a == Abs(x)
        q == a \div 2
        r == IF a < 16777216 \/ a % 2 = 0 THEN a
             ELSE IF q % 2 = 0 THEN 2 * q ELSE 2 * (q + 1)
    IN  IF x < 0 THEN -r ELSE r

\* the Rect of nearest_chargers and QuadTree::get_ids_that_overlap on it; the
\* tree holds each charger's point as f32 (read_csv) and the Rect is f32 too
InRect(p, c) ==
    LET hi == add_meters_to_coords(PADDED_MAX_RANGE_METERS, p.latitude, p.longitude)
        lo == add_meters_to_coords(-PADDED_MAX_RANGE_METERS, p.latitude, p.longitude)
    IN  /\ AsF32(lo[1]) <= AsF32(c.latitude)  /\ AsF32(c.latitude)  <= AsF32(hi[1])
        /\ AsF32(lo[2]) <= AsF32(c.longitude) /\ AsF32(c.longitude) <= AsF32(hi[2])

\* Vec::sort_by_key(|(_, distance)| *distance): a stable sort
RECURSIVE InsertByKey(_, _)
InsertByKey(s, e) ==
    IF s = << >> THEN <<e>>
    ELSE IF s[Len(s)].distance <= e.distance THEN Append(s, e)
    ELSE Append(InsertByKey(SubSeq(s, 1, Len(s) - 1), e), s[Len(s)])

RECURSIVE sort_by_key(_)
sort_by_key(s) ==
    IF s = << >> THEN << >>
    ELSE InsertByKey(sort_by_key(SubSeq(s, 1, Len(s) - 1)), s[Len(s)])

\* TrialPoint::nearest_chargers
nearest_chargers(p, cs) ==
    LET ids == SelectSeq(cs, LAMBDA c : InRect(p, c))
        chargers_distances ==
            [k \in 1..Len(ids) |-> [charger |-> ids[k], distance |-> distance_to(p, ids[k])]]
    IN  sort_by_key(chargers_distances)

\* (MAX_RANGE_METERS as f64 * CROW_FLIES_RATIO) as u64
CrowFliesThreshold == MAX_RANGE_METERS \div CROW_FLIES_RATIO_DENOM

\* check_charger with `<=` for `<` in the crow-flies test
VerdictInclusive(nearest) ==
    IF nearest = << >> THEN "No"
    ELSE IF nearest[1].distance <= CrowFliesThreshold THEN "Yes"
    ELSE "Maybe"

\* the decision of TrialPoint::check_charger on the list of nearest chargers
Verdict(nearest) ==
    IF nearest = << >> THEN "No"
    ELSE IF nearest[1].distance < CrowFliesThreshold THEN "Yes"
    ELSE "Maybe"

\* TrialPoint::check_charger
check_charger(p, cs) ==
    LET nearest == nearest_chargers(p, cs)
    IN  [tag |-> Verdict(nearest),
         candidates |-> IF Verdict(nearest) = "Maybe" THEN nearest ELSE << >>]

\* `distance as u64` of an f64 held in tenths of a metre (saturating at 0)
AsU64(d) == IF d < 0 THEN 0 ELSE d \div 10

\* whole metres as an f64 distance, in tenths of a metre
Metres(m) == 10 * m

\* the range test with `<` for `<=`
WithinRangeStrict(d) == AsU64(d) < MAX_RANGE_METERS

\* `distance as u64 <= MAX_RANGE_METERS`
WithinRange(d) == AsU64(d) <= MAX_RANGE_METERS

\* the backoff without its cap
BackoffUncapped(r) == r

\* `let sleep = if retries > 60 { 60 } else { retries };`
Backoff(r) == IF r > MAX_SLEEP_SECS THEN MAX_SLEEP_SECS ELSE r

\* the cap test `tried_chargers == 50`
CapReached(tried) == tried = TRIED_CHARGERS_CAP

\* geo::Point::new(point.latitude, point.longitude)
geo_point(p) == [x |-> p.latitude, y |-> p.longitude]

\* the CheckResult::No arm: the point is pushed unconditionally
PushNo(points, p) == Append(points, geo_point(p))

\* the push after the candidate loop without its `is_reachable == false` test
PushAlways(points, p, reached) == Append(points, geo_point(p))

\* `if is_reachable == false { ... not_reachable_points.push(geo_point) }`
PushIfUnreachable(points, p, reached) ==
    IF reached = FALSE THEN Append(points, geo_point(p)) ELSE points

\* the count after the candidate loop without its `is_reachable == false` test
CountAlways(count, reached) == count + 1

\* `if is_reachable == false { unreachable += 1; ... }`
CountIfUnreachable(count, reached) == IF reached = FALSE THEN count + 1 ELSE count

\* the progress block at the end of one iteration resets api_call_counter
AfterProgress(idx, counter) == IF idx % PROGRESS_EVERY = 0 THEN 0 ELSE counter

\* ------------------------------------------------------------------- worlds

\* the strictly descending sequences over S of length at most n: every subset
\* of at most n sites, in an order the sort has to undo
SeqsUpTo(S, n) ==
    UNION {{s \in [1..k -> S] : \A a, b \in 1..k : a < b => s[a] > s[b]} : k \in 0..n}

ChargerAt(axis, site, id) ==
    IF axis = "meridian"
    THEN [latitude |-> site, longitude |-> 0, id |-> id]
    ELSE [latitude |-> 0, longitude |-> site, id |-> id]

\* a box whose grid is npts points along the axis, GridStep apart: one column
\* on the meridian, one row on the equator
AxisBox(axis, npts) ==
    IF axis = "meridian"
    THEN [lat_start |-> 0, lat_end |-> -(npts * GridStep), lon_start |-> 0, lon_end |-> GridStep]
    ELSE [lat_start |-> 0, lat_end |-> -GridStep, lon_start |-> 0, lon_end |-> npts * GridStep]

SparseWorlds ==
    {[chargers |-> [k \in 1..Len(s) |-> ChargerAt(axis, s[k], k)], bbox |-> AxisBox(axis, npts)] :
        s \in SeqsUpTo(ChargerSites, MaxChargers),
        axis \in {"meridian", "equator"},
        npts \in 1..MaxGridPts}

\* one grid point with DenseChargers chargers between 46 km and 97 km of it
DenseWorld ==
    [chargers |-> [k \in 1..DenseChargers |-> ChargerAt("meridian", 45000 + 1000 * k, k)],
     bbox |-> AxisBox("meridian", 1)]

Worlds == SparseWorlds \cup {DenseWorld}

NoReturn == [kind |-> "pending", distance |-> 0]

NoResponse == [kind |-> "none", distance |-> 0]

NotRead == [tag |-> "none", quadtree |-> << >>, chargers_by_id |-> << >>]

Origin == [latitude |-> 0, longitude |-> 0]

\* the locals of find_gaps before its first statement
Idle ==
    /\ grid = << >> /\ chunks_vec = << >>
    /\ i = 0 /\ reachable = 0 /\ unreachable = 0 /\ maybe_reachable = 0
    /\ api_call_counter = 0 /\ not_reachable_points = << >>
    /\ result = "none" /\ candidates = << >> /\ next_candidate = 1
    /\ is_reachable = FALSE /\ tried_chargers = 0
    /\ retries = 0 /\ slept = 0 /\ sent = 0
    /\ response = NoResponse /\ osrm_return = NoReturn
    /\ queried = 0 /\ processed = << >> /\ multipoint = << >>
    /\ read_result = NotRead /\ test_chargers = << >> /\ slow_check = << >>

\* no csv source and no nearest_chargers call on its own
NoApart == csv_rows = << >> /\ trial_point = Origin

Init ==
    /\ \E w \in Worlds : chargers = w.chargers /\ bbox = w.bbox
    /\ resolution = GridStep
    /\ n_chunks = 0
    /\ outage = MaxRetries
    /\ pc = "start"
    /\ Idle /\ NoApart

\* one grid point, at most one charger, and a network outage long enough for
\* the backoff of get_osrm_distance to reach its cap
InitRetry ==
    /\ \E w \in SparseWorlds :
          /\ Len(w.chargers) <= 1 /\ w.bbox = AxisBox("meridian", 1)
          /\ chargers = w.chargers /\ bbox = w.bbox
    /\ resolution = GridStep
    /\ n_chunks = 0
    /\ outage = LongOutage
    /\ pc = "start"
    /\ Idle /\ NoApart

\* ---------------------------------------------------------------- find_gaps

point == grid[i + 1]

\* lines 80-89: the grid and the zeroed accumulators
FindGapsStart ==
    /\ pc = "start"
    /\ grid' = generate_grid(bbox, resolution)
    /\ pc' = "loop"
    /\ UNCHANGED <<world, apart, chunks_vec, i,
                   reachable, unreachable, maybe_reachable, api_call_counter,
                   not_reachable_points, result, candidates, next_candidate,
                   is_reachable, tried_chargers, retries, slept, sent, response, osrm_return,
                   queried, processed, multipoint>>

\* lines 90-100 and 129-136: a point whose verdict is Yes or No is finished in
\* one iteration of the loop
CheckPointDecided ==
    /\ pc = "loop" /\ i < Len(grid)
    /\ LET r == check_charger(point, chargers) IN
        /\ r.tag \in {"Yes", "No"}
        /\ reachable' = IF r.tag = "Yes" THEN reachable + 1 ELSE reachable
        /\ unreachable' = IF r.tag = "No" THEN unreachable + 1 ELSE unreachable
        /\ not_reachable_points' =
              IF r.tag = "No" THEN PushNo(not_reachable_points, point) ELSE not_reachable_points
        /\ processed' = Append(processed, [point |-> point, verdict |-> r.tag,
                                           accepted |-> FALSE])
    /\ api_call_counter' = AfterProgress(i, api_call_counter)
    /\ i' = i + 1
    /\ result' = "none" /\ queried' = 0 /\ response' = NoResponse /\ osrm_return' = NoReturn
    /\ UNCHANGED <<world, apart, chunks_vec, grid, pc,
                   maybe_reachable, candidates, next_candidate, is_reachable,
                   tried_chargers, retries, slept, sent, multipoint>>

\* lines 101-106: the Maybe arm up to its candidate loop
CheckPointMaybe ==
    /\ pc = "loop" /\ i < Len(grid)
    /\ LET r == check_charger(point, chargers) IN
        /\ r.tag = "Maybe"
        /\ candidates' = r.candidates
        /\ result' = r.tag
    /\ maybe_reachable' = maybe_reachable + 1
    /\ is_reachable' = FALSE
    /\ tried_chargers' = 0
    /\ next_candidate' = 1
    /\ queried' = 0 /\ response' = NoResponse /\ osrm_return' = NoReturn
    /\ pc' = "candidates"
    /\ UNCHANGED <<world, apart, chunks_vec, grid, i,
                   reachable, unreachable, api_call_counter, not_reachable_points,
                   retries, slept, sent, processed, multipoint>>

\* lines 107-108 and 293-297: the loop takes its next candidate and calls
\* get_osrm_distance, which starts with retries = 0
CallOsrm ==
    /\ pc = "candidates" /\ next_candidate <= Len(candidates)
    /\ retries' = 0 /\ slept' = 0 /\ sent' = 0
    /\ response' = NoResponse /\ osrm_return' = NoReturn
    /\ queried' = queried + 1
    /\ pc' = "request"
    /\ UNCHANGED <<world, apart, chunks_vec, grid, i,
                   reachable, unreachable, maybe_reachable, api_call_counter,
                   not_reachable_points, result, candidates, next_candidate,
                   is_reachable, tried_chargers, processed, multipoint>>

\* lines 299-303, 319-328: the request fails in transport; count, sleep, retry
TransportFailure ==
    /\ pc = "request" /\ retries < outage
    /\ sent' = sent + 1
    /\ retries' = retries + 1
    /\ slept' = Backoff(retries + 1)
    /\ response' = [kind |-> "transport_error", distance |-> 0]
    /\ UNCHANGED <<world, apart, chunks_vec, grid, pc, i,
                   reachable, unreachable, maybe_reachable, api_call_counter,
                   not_reachable_points, result, candidates, next_candidate,
                   is_reachable, tried_chargers, osrm_return, queried, processed,
                   multipoint>>

\* lines 304-318 then 108, 120: the body is no Json; get_osrm_distance returns
\* None and the candidate loop goes on
BodyError ==
    /\ pc = "request"
    /\ sent' = sent + 1
    /\ response' = [kind |-> "body_error", distance |-> 0]
    /\ osrm_return' = [kind |-> "None", distance |-> 0]
    /\ api_call_counter' = api_call_counter + 1
    /\ next_candidate' = next_candidate + 1
    /\ retries' = 0 /\ slept' = 0
    /\ pc' = "candidates"
    /\ UNCHANGED <<world, apart, chunks_vec, grid, i,
                   reachable, unreachable, maybe_reachable, not_reachable_points,
                   result, candidates, is_reachable, tried_chargers, queried,
                   processed, multipoint>>

\* lines 305, 330: the body is a Json whose routes array is empty; routes[0]
\* is out of bounds and the thread panics
EmptyRoutes ==
    /\ pc = "request"
    /\ sent' = sent + 1
    /\ response' = [kind |-> "empty_routes", distance |-> 0]
    /\ osrm_return' = [kind |-> "panic", distance |-> 0]
    /\ retries' = 0 /\ slept' = 0
    /\ pc' = "panicked"
    /\ UNCHANGED <<world, apart, chunks_vec, grid, i,
                   reachable, unreachable, maybe_reachable, api_call_counter,
                   not_reachable_points, result, candidates, next_candidate,
                   is_reachable, tried_chargers, queried, processed, multipoint>>

\* lines 305, 330-331 then 108-120: the body is a Json with a route;
\* get_osrm_distance returns Some(routes[0].distance)
RouteResponse ==
    /\ pc = "request"
    /\ \E d \in OracleDistances :
        /\ response' = [kind |-> "route", distance |-> d]
        /\ osrm_return' = [kind |-> "Some", distance |-> d]
        /\ IF WithinRange(d)
           THEN /\ reachable' = reachable + 1
                /\ is_reachable' = TRUE
                /\ pc' = "after_candidates"
                /\ UNCHANGED <<tried_chargers, api_call_counter, next_candidate>>
           ELSE /\ tried_chargers' = tried_chargers + 1
                /\ UNCHANGED <<reachable, is_reachable>>
                /\ IF CapReached(tried_chargers + 1)
                   THEN /\ pc' = "after_candidates"
                        /\ UNCHANGED <<api_call_counter, next_candidate>>
                   ELSE /\ api_call_counter' = api_call_counter + 1
                        /\ next_candidate' = next_candidate + 1
                        /\ pc' = "candidates"
    /\ sent' = sent + 1
    /\ retries' = 0 /\ slept' = 0
    /\ UNCHANGED <<world, apart, chunks_vec, grid, i,
                   unreachable, maybe_reachable, not_reachable_points, result,
                   candidates, queried, processed, multipoint>>

\* lines 122-136: after the candidate loop (left by break or by exhaustion)
AfterCandidates ==
    /\ \/ pc = "after_candidates"
       \/ pc = "candidates" /\ next_candidate > Len(candidates)
    /\ unreachable' = CountIfUnreachable(unreachable, is_reachable)
    /\ not_reachable_points' = PushIfUnreachable(not_reachable_points, point, is_reachable)
    /\ processed' = Append(processed, [point |-> point, verdict |-> result,
                                       accepted |-> is_reachable])
    /\ api_call_counter' = AfterProgress(i, api_call_counter)
    /\ i' = i + 1
    /\ pc' = "loop"
    /\ result' = "none" /\ candidates' = << >> /\ next_candidate' = 1
    /\ is_reachable' = FALSE /\ tried_chargers' = 0
    /\ queried' = 0 /\ response' = NoResponse /\ osrm_return' = NoReturn
    /\ UNCHANGED <<world, apart, chunks_vec, grid,
                   reachable, maybe_reachable, retries, slept, sent, multipoint>>

\* lines 138-144: the loop is over; the collected points go to concave_hull
Aggregate ==
    /\ pc = "loop" /\ i = Len(grid)
    /\ multipoint' = not_reachable_points
    /\ pc' = "done"
    /\ UNCHANGED <<world, apart, chunks_vec, grid, i,
                   reachable, unreachable, maybe_reachable, api_call_counter,
                   not_reachable_points, result, candidates, next_candidate,
                   is_reachable, tried_chargers, retries, slept, sent, response, osrm_return,
                   queried, processed>>

Next ==
    \/ FindGapsStart
    \/ CheckPointDecided
    \/ CheckPointMaybe
    \/ CallOsrm
    \/ TransportFailure
    \/ BodyError
    \/ EmptyRoutes
    \/ RouteResponse
    \/ AfterCandidates
    \/ Aggregate

Spec == Init /\ [][Next]_vars

SpecRetry == InitRetry /\ [][Next]_vars

\* a transport-level response: the exchange succeeded, whatever the body
TransportResponse == BodyError \/ EmptyRoutes \/ RouteResponse

\* find_gaps is sequential code on one worker thread, so each of its steps is
\* taken once it is due; of the oracle it is assumed that transport failures
\* do not persist: a request that keeps being sent is answered in the end
Fairness ==
    /\ WF_vars(FindGapsStart)
    /\ WF_vars(CheckPointDecided)
    /\ WF_vars(CheckPointMaybe)
    /\ WF_vars(CallOsrm)
    /\ WF_vars(AfterCandidates)
    /\ WF_vars(Aggregate)
    /\ WF_vars(TransportResponse)

\* the worlds of at most one charger: every arm of the grid loop and of the
\* request loop is reached on them
InitLive ==
    /\ \E w \in SparseWorlds :
          /\ Len(w.chargers) <= 1
          /\ chargers = w.chargers /\ bbox = w.bbox
    /\ resolution = GridStep
    /\ n_chunks = 0
    /\ outage = MaxRetries
    /\ pc = "start"
    /\ Idle /\ NoApart

SpecLive == InitLive /\ [][Next]_vars /\ Fairness

\* ------------------------------------------- generate_grid and chunkify alone

\* the boxes handed to generate_grid: every corner order, so as to include
\* boxes with lat_start > lat_end (the box of main) and lat_start < lat_end
GridBoxes ==
    {[lat_start |-> a, lat_end |-> b, lon_start |-> c, lon_end |-> d] :
        a \in -1..MaxCoord, b \in -1..MaxCoord, c \in -1..MaxCoord, d \in -1..MaxCoord}

InitGrid ==
    /\ chargers = << >>
    /\ bbox \in GridBoxes
    /\ resolution \in 1..MaxResolution
    /\ n_chunks = 0
    /\ outage = 0
    /\ pc = "start"
    /\ Idle /\ NoApart

\* a call of BoundingBox::generate_grid
GenerateGrid ==
    /\ pc = "start"
    /\ grid' = generate_grid(bbox, resolution)
    /\ pc' = "grid"
    /\ UNCHANGED <<world, apart, chunks_vec, i,
                   reachable, unreachable, maybe_reachable, api_call_counter,
                   not_reachable_points, result, candidates, next_candidate,
                   is_reachable, tried_chargers, retries, slept, sent, response, osrm_return,
                   queried, processed, multipoint>>

NextGrid == GenerateGrid

SpecGrid == InitGrid /\ [][NextGrid]_vars

\* the chunk counts of the tests: [4, 6, 8, 10, 12]
ChunkCounts == {4, 6, 8, 10, 12}

\* the boxes handed to chunkify: the width is a multiple of WidthUnit, which
\* every chunks/2 of ChunkCounts divides, so that the f64 division
\* width / (chunks / 2) is exact in integers
ChunkBoxes ==
    {[lat_start |-> a, lat_end |-> a + sgn * m * WidthUnit, lon_start |-> c, lon_end |-> d] :
        a \in {-WidthUnit, 0, 7}, sgn \in {-1, 1}, m \in 0..MaxWidthUnits,
        c \in {-3, 0}, d \in {0, 5}}

InitChunk ==
    /\ chargers = << >>
    /\ bbox \in ChunkBoxes
    /\ resolution = 1
    /\ n_chunks \in ChunkCounts
    /\ outage = 0
    /\ pc = "start"
    /\ Idle /\ NoApart

\* a call of BoundingBox::chunkify
Chunkify ==
    /\ pc = "start"
    /\ chunks_vec' = chunkify(bbox, n_chunks)
    /\ pc' = "chunked"
    /\ UNCHANGED <<world, apart, grid, i,
                   reachable, unreachable, maybe_reachable, api_call_counter,
                   not_reachable_points, result, candidates, next_candidate,
                   is_reachable, tried_chargers, retries, slept, sent, response, osrm_return,
                   queried, processed, multipoint>>

NextChunk == Chunkify

SpecChunk == InitChunk /\ [][NextChunk]_vars


\* --------------------------------------------------------------- read_csv

\* networks of a record; `row.network.contains("Tesla")` holds of the first two
Networks == {"Tesla", "Tesla Destination", "ChargePoint"}

contains_Tesla(network) == network \in {"Tesla", "Tesla Destination"}

\* a record of the csv source: it deserializes into a CsvRow (ok) or not
WellFormedRows ==
    {[ok |-> TRUE, latitude |-> lat, longitude |-> 0, id |-> id, network |-> n] :
        lat \in {5000, 45000}, id \in 1..MaxIds, n \in Networks}

MalformedRow == [ok |-> FALSE, latitude |-> 0, longitude |-> 0, id |-> 0, network |-> ""]

CsvSources ==
    UNION {[1..k -> WellFormedRows \cup {MalformedRow}] : k \in 0..MaxRows}

\* `.filter_map(|row: Result<CsvRow, _>| row.ok())`
filter_map_ok(rows) == SelectSeq(rows, LAMBDA r : r.ok)

\* read_csv: rows that do not deserialize are dropped by filter_map, Tesla
\* rows by filter; every remaining row goes into chargers_by_id (a later
\* insert of the same id replaces the earlier one) and, as (id, f32 point),
\* into the QuadTree; the function always returns Ok
read_csv(reader) ==
    LET rows == SelectSeq(filter_map_ok(reader), LAMBDA r : ~contains_Tesla(r.network))
        ids == {rows[k].id : k \in 1..Len(rows)}
        last(id) == CHOOSE k \in 1..Len(rows) :
                        /\ rows[k].id = id
                        /\ \A j \in 1..Len(rows) : rows[j].id = id => j <= k
    IN  [tag |-> "Ok",
         quadtree |-> [k \in 1..Len(rows) |->
                          [id |-> rows[k].id,
                           x |-> AsF32(rows[k].latitude),
                           y |-> AsF32(rows[k].longitude)]],
         chargers_by_id |-> [id \in ids |->
                                [latitude |-> rows[last(id)].latitude,
                                 longitude |-> rows[last(id)].longitude,
                                 id |-> id]]]

InitCsv ==
    /\ chargers = << >>
    /\ bbox = AxisBox("meridian", 1)
    /\ resolution = GridStep
    /\ n_chunks = 0
    /\ outage = 0
    /\ pc = "start"
    /\ Idle
    /\ csv_rows \in CsvSources
    /\ trial_point = Origin

\* a call of read_csv (from read_from_file or download_source_data)
ReadCsv ==
    /\ pc = "start"
    /\ read_result' = read_csv(csv_rows)
    /\ pc' = "read"
    /\ UNCHANGED <<world, chunks_vec, grid, i,
                   reachable, unreachable, maybe_reachable, api_call_counter,
                   not_reachable_points, result, candidates, next_candidate,
                   is_reachable, tried_chargers, retries, slept, sent, response,
                   osrm_return, queried, processed, multipoint,
                   csv_rows, trial_point, test_chargers, slow_check>>

NextCsv == ReadCsv

SpecCsv == InitCsv /\ [][NextCsv]_vars


\* ------------------------------------------------- nearest_chargers alone

\* where the TrialPoint of a nearest_chargers call may lie along its axis:
\* at 0, one grid step on, and (on the equator) 100 km short of longitude 180
PointSites(axis) ==
    IF axis = "meridian" THEN {0, GridStep}
    ELSE {0, GridStep, HALF_TURN_METERS - 100000}

\* where its chargers may lie: the sites of the find_gaps worlds, a site
\* opposite 45000 and (on the equator) sites on either side of longitude 180
NearSites(axis) ==
    IF axis = "meridian" THEN ChargerSites \cup {-45000}
    ELSE ChargerSites \cup {-45000, HALF_TURN_METERS - 5000, 100000 - HALF_TURN_METERS,
                            400000 - HALF_TURN_METERS}

PointAt(axis, site) ==
    IF axis = "meridian"
    THEN [latitude |-> site, longitude |-> 0]
    ELSE [latitude |-> 0, longitude |-> site]

\* the slow check of the test quadtree_include_relevant_points: the distance
\* to every charger, those below MAX_RANGE_METERS kept, sorted by distance
slow_scan(p, cs) ==
    LET all == [k \in 1..Len(cs) |-> [charger |-> cs[k], distance |-> distance_to(p, cs[k])]]
    IN  sort_by_key(SelectSeq(all, LAMBDA e : e.distance < MAX_RANGE_METERS))

InitNearest ==
    /\ \E axis \in {"meridian", "equator"} :
          /\ \E s \in SeqsUpTo(NearSites(axis), MaxChargers) :
                chargers = [k \in 1..Len(s) |-> ChargerAt(axis, s[k], k)]
          /\ \E site \in PointSites(axis) : trial_point = PointAt(axis, site)
    /\ bbox = AxisBox("meridian", 1)
    /\ resolution = GridStep
    /\ n_chunks = 0
    /\ outage = 0
    /\ pc = "start"
    /\ Idle
    /\ csv_rows = << >>

\* a call of nearest_chargers next to the slow scan of the same chargers
NearestChargers ==
    /\ pc = "start"
    /\ test_chargers' = nearest_chargers(trial_point, chargers)
    /\ slow_check' = slow_scan(trial_point, chargers)
    /\ pc' = "nearest"
    /\ UNCHANGED <<world, chunks_vec, grid, i,
                   reachable, unreachable, maybe_reachable, api_call_counter,
                   not_reachable_points, result, candidates, next_candidate,
                   is_reachable, tried_chargers, retries, slept, sent, response,
                   osrm_return, queried, processed, multipoint,
                   csv_rows, read_result, trial_point>>

NextNearest == NearestChargers

SpecNearest == InitNearest /\ [][NextNearest]_vars

\* =================================================================== claims

MinLat(b) == Min(b.lat_start, b.lat_end)

MaxLat(b) == -Min(-b.lat_start, -b.lat_end)

MinLon(b) == Min(b.lon_start, b.lon_end)

\* the find_gaps loop is inside the Maybe arm of the current point
InMaybeArm == pc \in {"candidates", "request", "after_candidates", "panicked"}

\* some charger of the set lies within MAX_RANGE_METERS of p
ChargerWithinRange(p) ==
    \E k \in 1..Len(chargers) : distance_to(p, chargers[k]) < MAX_RANGE_METERS

Ascending(s) == \A k \in 1..(Len(s) - 1) : s[k].distance <= s[k + 1].distance

\* C1: chunkify(region, N), N in {4,6,8,10,12}, returns exactly N sub-regions,
\* each of width region.width / (N/2) and of the region's height; the first
\* starts at the region's start edges and the last ends at the region's end
\* edge (lat_end).
C1_ChunkifyContract ==
    pc = "chunked" =>
        /\ Len(chunks_vec) = n_chunks
        /\ \A k \in 1..Len(chunks_vec) :
              /\ width(chunks_vec[k]) = width(bbox) \div (n_chunks \div 2)
              /\ height(chunks_vec[k]) = height(bbox)
        /\ chunks_vec[1].lat_start = bbox.lat_start
        /\ chunks_vec[1].lon_start = bbox.lon_start
        /\ chunks_vec[Len(chunks_vec)].lat_end = bbox.lat_end
        /\ chunks_vec[Len(chunks_vec)].lon_end = bbox.lon_end

\* C2: a point with no charger within MAX_RANGE_METERS gets the verdict No,
\* is counted unreachable and causes no oracle request; a Maybe verdict never
\* carries a candidate at distance >= MAX_RANGE_METERS.
C2_OutOfRangeIsNo ==
    /\ \A k \in 1..Len(processed) :
          ~ChargerWithinRange(processed[k].point) =>
              /\ processed[k].verdict = "No"
              /\ geo_point(processed[k].point) \in {not_reachable_points[j] :
                                                     j \in 1..Len(not_reachable_points)}
    /\ InMaybeArm =>
          /\ ChargerWithinRange(point)
          /\ \A k \in 1..Len(candidates) : candidates[k].distance < MAX_RANGE_METERS
    /\ ~InMaybeArm => queried = 0

\* C3: for a Maybe point find_gaps hands at most 50 candidates to the oracle,
\* whatever the oracle answers.
C3_AtMost50Queried == queried <= 50

\* C4: an exchange that succeeds in transport but whose payload is malformed
\* or has an empty routes array makes get_osrm_distance return None at once,
\* with no retry, sleep or abort, and find_gaps goes on to the next candidate.
C4_PayloadErrorIsNone ==
    response.kind \in {"body_error", "empty_routes"} =>
        /\ osrm_return.kind = "None"
        /\ pc = "candidates"
        /\ retries = 0 /\ slept = 0

\* the parts of C5 that do not depend on how a distance is compared with the
\* range: candidates are consulted nearest first, one after the other; an
\* accepted point sends no further request; a Maybe point is collected as
\* unreachable exactly when no candidate was accepted
C5_OrderAndStop ==
    /\ InMaybeArm => Ascending(candidates)
    /\ pc = "request" => next_candidate = queried /\ queried <= Len(candidates)
    /\ is_reachable => pc = "after_candidates"
    /\ pc = "after_candidates" /\ ~is_reachable => osrm_return.kind = "Some"
    /\ \A k \in 1..Len(processed) :
          processed[k].verdict = "Maybe" =>
              (processed[k].accepted <=>
                  geo_point(processed[k].point) \notin {not_reachable_points[j] :
                                                         j \in 1..Len(not_reachable_points)})

\* C5 as claimed: a Maybe point is reachable exactly when a consulted candidate
\* returns a driving distance <= MAX_RANGE_METERS, and the loop stops there.
C5_ReachableIffWithinMax ==
    /\ C5_OrderAndStop
    /\ osrm_return.kind = "Some" =>
          (is_reachable <=> osrm_return.distance <= Metres(MAX_RANGE_METERS))

\* C5 as amended: a Maybe point is reachable exactly when a consulted candidate
\* returns a driving distance whose whole-metre part (the distance truncated by
\* `as u64`) is <= MAX_RANGE_METERS, i.e. a distance < MAX_RANGE_METERS + 1 m.
C5_ReachableIffTruncatedWithinMax ==
    /\ C5_OrderAndStop
    /\ osrm_return.kind = "Some" =>
          (is_reachable <=> osrm_return.distance < Metres(MAX_RANGE_METERS + 1))
    /\ osrm_return.kind \in {"None", "pending"} => ~is_reachable

\* a candidate answered 400000.5 m and the point was accepted
C5_Witness ==
    /\ pc = "after_candidates" /\ is_reachable
    /\ osrm_return.kind = "Some"
    /\ osrm_return.distance = Metres(MAX_RANGE_METERS) + 5
    /\ queried = 2

\* C6: in get_osrm_distance, after k transport failures of a request the call
\* has sent k requests, has last slept min(k, 60) seconds (nothing before the
\* first attempt) and is about to send again, however large k; a response with
\* a route ends the call, which returns that route's distance.
C6_Backoff ==
    /\ pc = "request" =>
          /\ sent = retries
          /\ slept = (IF retries < 60 THEN retries ELSE 60)
          /\ osrm_return.kind = "pending"
          /\ (retries = 0 <=> response.kind = "none")
    /\ response.kind = "transport_error" => pc = "request" /\ retries >= 1
    /\ response.kind = "route" =>
          /\ pc # "request"
          /\ osrm_return = [kind |-> "Some", distance |-> response.distance]

\* the 61st transport failure in a row: the wait stays at 60 seconds and the
\* call is about to try again
C6_Witness ==
    pc = "request" /\ retries = 61 /\ slept = 60 /\ response.kind = "transport_error"

\* the verdict C7 states for a sorted candidate list
C7_Expected(near) ==
    IF Len(near) = 0 THEN "No"
    ELSE IF near[1].distance < 40000 THEN "Yes"
    ELSE "Maybe"

\* C7: check_charger decides on the ascending candidate list of the point:
\* empty -> No; smallest distance d0 < 40,000 m -> Yes; otherwise Maybe with
\* the whole list, nearest first.  One charger 5 km away gives Yes; a nearest
\* charger at exactly 40,000 m gives Maybe.
C7_ThreeWay ==
    /\ \A k \in 1..Len(processed) :
          processed[k].verdict = C7_Expected(nearest_chargers(processed[k].point, chargers))
    /\ InMaybeArm =>
          /\ result = "Maybe"
          /\ C7_Expected(nearest_chargers(point, chargers)) = "Maybe"
          /\ candidates = nearest_chargers(point, chargers)
          /\ Ascending(candidates)
    /\ ~InMaybeArm => result = "none"

\* a point whose nearest charger is at exactly 40,000 m was given Maybe with
\* both chargers of the set as candidates
C7_Witness ==
    /\ Len(processed) = 2
    /\ processed[1].verdict = "Maybe"
    /\ nearest_chargers(processed[1].point, chargers)[1].distance = 40000
    /\ Len(nearest_chargers(processed[1].point, chargers)) = 2
    /\ processed[2].verdict = "Maybe"

\* a point whose only charger is 5 km away was given Yes
C7_WitnessYes ==
    /\ Len(processed) >= 1
    /\ processed[1].verdict = "Yes"
    /\ Len(chargers) = 1
    /\ nearest_chargers(processed[1].point, chargers)[1].distance = 5000

\* C8: generate_grid returns floor(width/resolution) x floor(height/resolution)
\* points in row-major order (latitude outer, longitude inner) on the lattice
\* that starts at the region's minimum-latitude, minimum-longitude corner and
\* advances by resolution along both axes.
C8_GridLattice ==
    pc = "grid" =>
        LET nlat == width(bbox) \div resolution
            nlon == height(bbox) \div resolution
        IN  /\ Len(grid) = nlat * nlon
            /\ \A r \in 0..(nlat - 1) : \A c \in 0..(nlon - 1) :
                  grid[r * nlon + c + 1] =
                      [latitude  |-> MinLat(bbox) + r * resolution,
                       longitude |-> MinLon(bbox) + c * resolution]

\* C9: the sub-regions of chunkify are contiguous latitude bands, pairwise
\* disjoint, each with the region's full longitude span, that together cover
\* exactly the region's latitude extent: no band reaches outside the region.
C9_ChunksPartition ==
    pc = "chunked" =>
        /\ \A k \in 1..(Len(chunks_vec) - 1) :
              chunks_vec[k].lat_end = chunks_vec[k + 1].lat_start
        /\ \A k \in 1..Len(chunks_vec) : \A j \in 1..Len(chunks_vec) :
              k < j => \/ MaxLat(chunks_vec[j]) <= MinLat(chunks_vec[k])
                       \/ MaxLat(chunks_vec[k]) <= MinLat(chunks_vec[j])
        /\ \A k \in 1..Len(chunks_vec) :
              /\ chunks_vec[k].lon_start = bbox.lon_start
              /\ chunks_vec[k].lon_end = bbox.lon_end
              /\ MinLat(bbox) <= MinLat(chunks_vec[k])
              /\ MaxLat(chunks_vec[k]) <= MaxLat(bbox)
        /\ width(bbox) > 0 =>
              \A y \in MinLat(bbox)..(MaxLat(bbox) - 1) :
                  \E k \in 1..Len(chunks_vec) :
                      MinLat(chunks_vec[k]) <= y /\ y + 1 <= MaxLat(chunks_vec[k])

\* the processed points that C10 says are collected, in processing order
RECURSIVE C10_Collected(_)
C10_Collected(done) ==
    IF done = << >> THEN << >>
    ELSE LET e == done[Len(done)]
             before == C10_Collected(SubSeq(done, 1, Len(done) - 1))
         IN  IF e.verdict = "No" \/ (e.verdict = "Maybe" /\ ~e.accepted)
             THEN Append(before, [x |-> e.point.latitude, y |-> e.point.longitude])
             ELSE before

\* C10: after any prefix of the grid, the unreachable-point set holds exactly
\* the processed points whose verdict was No, or Maybe with no candidate
\* accepted by the oracle, each exactly once, and no other point; the hull is
\* computed from this set, and only after the last grid point.
C10_UnreachableSet ==
    /\ Len(processed) = i /\ i <= Len(grid)
    /\ \A k \in 1..Len(processed) : processed[k].point = grid[k]
    /\ not_reachable_points = C10_Collected(processed)
    /\ \A a \in 1..Len(not_reachable_points) : \A b \in 1..Len(not_reachable_points) :
          a # b => not_reachable_points[a] # not_reachable_points[b]
    /\ Len(not_reachable_points) = unreachable
    /\ pc = "done" => i = Len(grid) /\ multipoint = C10_Collected(processed)
    /\ pc # "done" => multipoint = << >>

\* the run is over with one point accepted by the oracle and left out, and one
\* point exhausted without acceptance and collected
C10_Witness ==
    /\ pc = "done" /\ Len(processed) = 2
    /\ processed[1].verdict = "Maybe" /\ processed[1].accepted
    /\ processed[2].verdict = "Maybe" /\ ~processed[2].accepted
    /\ Len(multipoint) = 1

\* C11: a charger source with a malformed record fails the whole run:
\* read_csv returns an error and no AllChargerLocations is built from the
\* remaining well-formed records.
C11_MalformedFailsRun ==
    (pc = "read" /\ \E k \in 1..Len(csv_rows) : ~csv_rows[k].ok) =>
        /\ read_result.tag = "Err"
        /\ read_result.quadtree = << >>

\* C12: for every TrialPoint and charger set, nearest_chargers returns a list
\* at least as long as the slow scan (all chargers below MAX_RANGE_METERS,
\* ascending), itself ascending, whose entry i has the distance of the slow
\* scan's entry i: the padded rectangle loses no charger that is within range.
C12_IndexCoversSlowScan ==
    pc = "nearest" =>
        /\ Len(test_chargers) >= Len(slow_check)
        /\ Ascending(test_chargers)
        /\ \A k \in 1..Len(slow_check) : test_chargers[k].distance = slow_check[k].distance

MaxLon(b) == -Min(-b.lon_start, -b.lon_end)

\* C13: every TrialPoint of generate_grid lies inside the region it was
\* generated from (latitude between the two latitude edges, longitude between
\* the two longitude edges), also when lat_start > lat_end as in the chunks
\* of chunkify.  Stated for the regions whose longitude edges are in order
\* (lon_start <= lon_end), as in main and in every chunk of its box.
C13_GridInsideRegion ==
    (pc = "grid" /\ bbox.lon_start <= bbox.lon_end) =>
        \A k \in 1..Len(grid) :
            /\ MinLat(bbox) <= grid[k].latitude /\ grid[k].latitude <= MaxLat(bbox)
            /\ MinLon(bbox) <= grid[k].longitude /\ grid[k].longitude <= MaxLon(bbox)

\* C14: whenever find_gaps is between two grid points or past the last one,
\* reachable + unreachable is the number of points processed so far, the
\* number of collected unreachable points is the unreachable counter, and the
\* maybe counter is the number of processed points whose verdict was Maybe
\* (at most the number processed); at the end reachable + unreachable is the
\* grid length.
C14_Counters ==
    /\ pc \in {"loop", "done"} =>
          /\ Len(processed) = i
          /\ reachable + unreachable = i
          /\ Len(not_reachable_points) = unreachable
          /\ maybe_reachable =
                Cardinality({k \in 1..Len(processed) : processed[k].verdict = "Maybe"})
          /\ maybe_reachable <= i
    /\ pc = "done" => reachable + unreachable = Len(grid)

\* the run is over with two points, both Maybe, one counted reachable and
\* one counted unreachable
C14_Witness ==
    /\ pc = "done" /\ Len(grid) = 2
    /\ reachable = 1 /\ unreachable = 1 /\ maybe_reachable = 2

\* C15: on every finite grid and charger set, if every oracle request is in
\* the end answered at transport level, find_gaps finishes all grid points
\* and reaches the aggregation step.
C15_Terminates == <>(pc = "done")

\* C15, second half: a transport failure leaves find_gaps in the retry loop
\* of the same request, at the same grid point; only a transport-level
\* response leaves the loop.
C15_RetryLoopHolds ==
    [][/\ (pc = "request" /\ pc' # "request") =>
              response'.kind \in {"body_error", "empty_routes", "route"}
       /\ (pc = "request" /\ response'.kind = "transport_error") =>
              pc' = "request" /\ i' = i /\ next_candidate' = next_candidate]_vars
====
